---------------------------- MODULE Spec2Model ----------------------------
(***************************************************************************)
(* A model of the KoreanTama "sora" tool set:                              *)
(*   generate.py          submit a job, poll it, download its variants     *)
(*   download_video.py    download the variants of a finished job          *)
(*   create_spritesheet.py  compose frame folders into one sprite sheet    *)
(* The Job Service (client.videos.create / retrieve / download_content),   *)
(* the environment and the file system are the model's inputs: every       *)
(* answer they can give is a nondeterministic choice.                      *)
(***************************************************************************)
EXTENDS Integers, Sequences, FiniteSets, TLC

VARIABLES
    program,        \* which entry point this run executes
    pc,             \* position in that program
    exit_code,      \* process exit status once it ended (-1: still running)
    image_exists,   \* Path(args.image).exists()
    api_key_set,    \* os.getenv("OPENAI_API_KEY") is truthy
    prompt_input,   \* args.prompt
    prompt_name,    \* short name used in the output file names
    video_id,       \* the job id
    nCreate,        \* client.videos.create calls made
    nRetrieve,      \* client.videos.retrieve calls made
    nSleep,         \* time.sleep calls that returned
    poll_interval,  \* wait_for_completion's poll_interval argument
    timeout,        \* wait_for_completion's timeout argument
    elapsed,        \* wait_for_completion's local elapsed
    job,            \* the record the last retrieve returned
    pollState,      \* idle | running | returned | failed | timeout | error
    result,         \* what wait_for_completion returned
    raised,         \* the exception that ended the call or the process
    firstTerminalAt,\* index of the first retrieve that answered a terminal status
    todo,           \* variants the download loop still has to visit
    requested,      \* download_content calls made, per variant
    fetched,        \* how each variant's download went: none | ok | failed
    files,          \* paths written, with the variant whose bytes they hold
    tree,           \* INPUT_DIR: entry name -> [is_dir, files]
    animation_folders, \* create_spritesheet.main: the sorted folders
    animations,     \* folder name -> its sorted frame files
    max_frames,     \* the largest frame count seen so far
    row,            \* index of the folder the loops are at (from 0)
    col,            \* index of the frame the paste loop is at (from 0)
    spritesheet,    \* the canvas: its size and what each cell holds
    saved,          \* OUTPUT_FILE was written
    image_size,     \* resize_with_padding: image.size
    target_size,    \* resize_with_padding: target_size
    padded          \* resize_with_padding: what it computed

pipeVars == <<exit_code, image_exists, api_key_set, prompt_input, prompt_name,
              video_id, nCreate>>
pollVars == <<nRetrieve, nSleep, poll_interval, timeout, elapsed, job, pollState,
              result, raised, firstTerminalAt>>
dlVars   == <<todo, requested, fetched, files>>
compVars == <<tree, animation_folders, animations, max_frames, row, col,
              spritesheet, saved>>
rzVars   == <<image_size, target_size, padded>>
vars     == <<program, pc, pipeVars, pollVars, dlVars, compVars, rzVars>>

------------------------------------------------------------------------------
(* Bounds of the model *)

\* direct calls of wait_for_completion draw timeout from -1..MaxTimeout
MaxTimeout == 4
\* ... and poll_interval from -1..MaxInterval
MaxInterval == 3

(* Program constants *)

DEFAULT_POLL_INTERVAL == 10
DEFAULT_TIMEOUT == 600

\* Counters of calls saturate here. A run that ends makes at most
\* timeout / poll_interval checks (poll_interval >= 1), so it stays below it.
MaxCount == (IF MaxTimeout > DEFAULT_TIMEOUT \div DEFAULT_POLL_INTERVAL
               THEN MaxTimeout ELSE DEFAULT_TIMEOUT \div DEFAULT_POLL_INTERVAL) + 2

Bump(n) == IF n < MaxCount THEN n + 1 ELSE n

None == [kind |-> "None"]

VideoIds == {"video_a", "video_b"}

PROMPT_PRESETS == {"flying", "idle", "walking", "pecking", "eating", "surprised",
                   "hungry", "hatching"}

\* the --prompt values a run is started with: presets and a raw text
PromptInputs == {"flying", "hatching", "a bird dancing"}

OUTPUT_DIR == "output"

Statuses == {"queued", "running", "completed", "failed"}

\* job.error as the service can supply it: absent, an object with a message,
\* or a value without a message attribute
ServiceErrors ==
    { [present |-> FALSE, has_message |-> FALSE, message |-> "", repr |-> "None"],
      [present |-> TRUE, has_message |-> TRUE, message |-> "moderation_blocked",
       repr |-> "Error(moderation_blocked)"],
      [present |-> TRUE, has_message |-> FALSE, message |-> "", repr |-> "internal error"] }

NoError == [present |-> FALSE, has_message |-> FALSE, message |-> "", repr |-> "None"]

NoJob == [seq |-> 0, status |-> "none", error |-> NoError, at |-> 0]

------------------------------------------------------------------------------
(* generate.py: main, up to the call of wait_for_completion *)

\* prompt_name = args.prompt if args.prompt in PROMPT_PRESETS else "custom"
PromptName(p) == IF p \in PROMPT_PRESETS THEN p ELSE "custom"

\* if not Path(args.image).exists(): print; sys.exit(1)
\* then resolve_prompt and prompt_name, which touch no service
MainCheckImage ==
    /\ UNCHANGED <<compVars, rzVars>>
    /\ program = "generate.py" /\ pc = "check_image"
    /\ IF image_exists
         THEN /\ pc' = "get_client"
              /\ prompt_name' = PromptName(prompt_input)
              /\ exit_code' = exit_code
         ELSE /\ pc' = "exited"
              /\ exit_code' = 1
              /\ prompt_name' = prompt_name
    /\ UNCHANGED <<program, image_exists, api_key_set, prompt_input, video_id, nCreate>>
    /\ UNCHANGED <<pollVars, dlVars>>

\* get_client without its test of the key
GetClientUnchecked(key) == TRUE

\* the guard of get_client: a missing key ends the process with status 1
GetClientOk(key) == key

\* client = get_client()
MainGetClient ==
    /\ UNCHANGED <<compVars, rzVars>>
    /\ program = "generate.py" /\ pc = "get_client"
    /\ IF GetClientOk(api_key_set)
         THEN pc' = "create_video" /\ exit_code' = exit_code
         ELSE pc' = "exited" /\ exit_code' = 1
    /\ UNCHANGED <<program, image_exists, api_key_set, prompt_input, prompt_name,
                   video_id, nCreate>>
    /\ UNCHANGED <<pollVars, dlVars>>

\* video_id = create_video(...): one client.videos.create call, which answers a
\* job id or raises; then wait_for_completion(client, video_id) with its defaults
MainCreateVideo ==
    /\ UNCHANGED <<compVars, rzVars>>
    /\ program = "generate.py" /\ pc = "create_video"
    /\ nCreate' = Bump(nCreate)
    /\ \/ \E id \in VideoIds :
            /\ video_id' = id
            /\ pc' = "loop_test"
            /\ pollState' = "running"
            /\ poll_interval' = DEFAULT_POLL_INTERVAL
            /\ timeout' = DEFAULT_TIMEOUT
            /\ elapsed' = 0
            /\ UNCHANGED <<exit_code, raised>>
       \/ /\ pc' = "exited"
          /\ exit_code' = 1
          /\ raised' = [kind |-> "APIError", text |-> "create", video_id |-> "",
                        seconds |-> 0]
          /\ UNCHANGED <<video_id, pollState, poll_interval, timeout, elapsed>>
    /\ UNCHANGED <<program, image_exists, api_key_set, prompt_input, prompt_name>>
    /\ UNCHANGED <<nRetrieve, nSleep, job, result, firstTerminalAt, dlVars>>

------------------------------------------------------------------------------
(* wait_for_completion *)

\* a main that catches the failure and goes on to the downloads
AfterRaiseSwallowed == /\ pc' = IF program = "generate.py" THEN "download" ELSE "exited"
                       /\ exit_code' = exit_code

\* where control goes when wait_for_completion raises: main has no handler, so
\* the process ends with a traceback and status 1
AfterRaise == /\ pc' = "exited"
              /\ exit_code' = IF program = "generate.py" THEN 1 ELSE exit_code

\* a loop that still checks when elapsed has reached timeout
LoopGuardInclusive(e, t) == e <= t

\* the guard of the while loop
LoopGuard(e, t) == e < t

\* while elapsed < timeout: ... ; raise RuntimeError(f"Timed out after {timeout}s ...")
PollLoopTest ==
    /\ UNCHANGED <<compVars, rzVars>>
    /\ pc = "loop_test"
    /\ IF LoopGuard(elapsed, timeout)
         THEN /\ pc' = "retrieve"
              /\ UNCHANGED <<exit_code, pollState, raised>>
         ELSE /\ pollState' = "timeout"
              /\ raised' = [kind |-> "RuntimeError", text |-> "Timed out",
                            video_id |-> video_id, seconds |-> timeout]
              /\ AfterRaise
    /\ UNCHANGED <<program, image_exists, api_key_set, prompt_input, prompt_name,
                   video_id, nCreate>>
    /\ UNCHANGED <<nRetrieve, nSleep, poll_interval, timeout, elapsed, job, result,
                   firstTerminalAt, dlVars>>

\* the error object itself, its message never unwrapped
ErrorTextRaw(err) == err.repr

\* error_msg = getattr(job, "error", None)
\* if error_msg and hasattr(error_msg, "message"): error_msg = error_msg.message
ErrorText(err) == IF err.present /\ err.has_message THEN err.message ELSE err.repr

\* a loop body that keeps polling a completed job
ClassifyNoReturn(status) == IF status = "failed" THEN "raise" ELSE "sleep"

\* what the loop body does with the status it read
Classify(status) ==
    IF status = "completed" THEN "return"
    ELSE IF status = "failed" THEN "raise"
    ELSE "sleep"

\* job = client.videos.retrieve(video_id), then the two terminal tests
PollRetrieve ==
    /\ UNCHANGED <<compVars, rzVars>>
    /\ pc = "retrieve"
    /\ nRetrieve' = Bump(nRetrieve)
    /\ \/ \E st \in Statuses, err \in ServiceErrors :
            /\ (st # "failed") => (err = NoError)
            /\ job' = [seq |-> nRetrieve', status |-> st, error |-> err, at |-> elapsed]
            /\ firstTerminalAt' =
                 IF firstTerminalAt = 0 /\ st \in {"completed", "failed"}
                   THEN nRetrieve' ELSE firstTerminalAt
            /\ CASE Classify(st) = "return" ->
                      /\ pollState' = "returned"
                      /\ result' = job'
                      /\ pc' = IF program = "generate.py" THEN "download" ELSE "exited"
                      /\ UNCHANGED <<exit_code, raised>>
                 [] Classify(st) = "raise" ->
                      /\ pollState' = "failed"
                      /\ raised' = [kind |-> "RuntimeError",
                                    text |-> ErrorText(err),
                                    video_id |-> video_id, seconds |-> 0]
                      /\ AfterRaise
                      /\ UNCHANGED result
                 [] OTHER ->
                      /\ pc' = "sleep"
                      /\ UNCHANGED <<exit_code, pollState, result, raised>>
       \/ \* the call itself raises (a transport error): nothing catches it
          /\ pollState' = "error"
          /\ raised' = [kind |-> "APIError", text |-> "retrieve",
                        video_id |-> video_id, seconds |-> 0]
          /\ AfterRaise
          /\ UNCHANGED <<job, result, firstTerminalAt>>
    /\ UNCHANGED <<program, image_exists, api_key_set, prompt_input, prompt_name,
                   video_id, nCreate>>
    /\ UNCHANGED <<nSleep, poll_interval, timeout, elapsed, dlVars>>

\* time.sleep(poll_interval); elapsed += poll_interval
\* (time.sleep raises ValueError for a negative length)
PollSleep ==
    /\ UNCHANGED <<compVars, rzVars>>
    /\ pc = "sleep"
    /\ IF poll_interval < 0
         THEN /\ pollState' = "error"
              /\ raised' = [kind |-> "ValueError", text |-> "sleep length",
                            video_id |-> video_id, seconds |-> 0]
              /\ AfterRaise
              /\ UNCHANGED <<nSleep, elapsed>>
         ELSE /\ nSleep' = Bump(nSleep)
              /\ elapsed' = elapsed + poll_interval
              /\ pc' = "loop_test"
              /\ UNCHANGED <<exit_code, pollState, raised>>
    /\ UNCHANGED <<program, image_exists, api_key_set, prompt_input, prompt_name,
                   video_id, nCreate>>
    /\ UNCHANGED <<nRetrieve, poll_interval, timeout, job, result, firstTerminalAt,
                   dlVars>>

------------------------------------------------------------------------------
(* download_outputs and the loop of download_video.py *)

\* the variants in the order each program visits them
GenerateVariants == <<"spritesheet", "thumbnail", "video">>
ScriptVariants   == <<"video", "thumbnail", "spritesheet">>
Variants == {"video", "thumbnail", "spritesheet"}

\* base = f"{OUTPUT_DIR}/{prompt_name}_{video_id}" and the three paths of
\* download_outputs; f"{output_dir}/{video_id}_{variant}.{ext}" in download_video.py
FilePath(prog, name, id, variant) ==
    IF prog = "download_video.py"
      THEN <<OUTPUT_DIR, id, variant, IF variant = "video" THEN "mp4" ELSE "png">>
      ELSE <<OUTPUT_DIR, name, id,
             CASE variant = "spritesheet" -> "_spritesheet.png"
               [] variant = "thumbnail" -> "_thumbnail.png"
               [] OTHER -> ".mp4">>

\* a loop that a failing variant ends
RestAfterAbort(rest, ok) == IF ok THEN Tail(rest) ELSE <<>>

\* what is left of the loop after one variant, whether it was saved or raised
RestAfter(rest, ok) == Tail(rest)

\* one iteration of the for loop: try: download_content, read, write
\*                                except Exception: print
DownloadVariant ==
    /\ UNCHANGED <<compVars, rzVars>>
    /\ pc = "download"
    /\ todo # <<>>
    /\ LET variant == Head(todo) IN
       /\ requested' = [requested EXCEPT ![variant] = @ + 1]
       /\ \E ok \in BOOLEAN :
            /\ files' = IF ok
                          THEN files \cup {[path |-> FilePath(program, prompt_name,
                                                              video_id, variant),
                                            content |-> variant]}
                          ELSE files
            /\ fetched' = [fetched EXCEPT ![variant] = IF ok THEN "ok" ELSE "failed"]
            /\ todo' = RestAfter(todo, ok)
    /\ UNCHANGED <<program, pc, pipeVars, pollVars>>

\* the loop is over: download_outputs returns and main prints, or the script ends
DownloadDone ==
    /\ UNCHANGED <<compVars, rzVars>>
    /\ pc = "download"
    /\ todo = <<>>
    /\ pc' = "exited"
    /\ exit_code' = 0
    /\ UNCHANGED <<program, image_exists, api_key_set, prompt_input, prompt_name,
                   video_id, nCreate>>
    /\ UNCHANGED <<pollVars, dlVars>>

------------------------------------------------------------------------------
(* Python floats: IEEE 754 binary64, round to nearest, ties to even.       *)
(* A natural number is held as its digits in base 512, most significant    *)
(* first. A positive float is [m, e] of value m * 2^e, where m has exactly  *)
(* 53 bits: six digits, the first one in 128..255.                         *)

SignificandBits == 53
DigitBits == 9
Base == 2^DigitBits
\* digits of a significand: 8 + 5 * 9 = 53 bits
SignificandDigits == 1 + (SignificandBits \div DigitBits)
TopBits == SignificandBits - (SignificandDigits - 1) * DigitBits

RECURSIVE BitLen(_)
BitLen(n) == IF n = 0 THEN 0 ELSE 1 + BitLen(n \div 2)

RECURSIVE DigitsToInt(_)
DigitsToInt(d) ==
    IF d = <<>> THEN 0
    ELSE Base * DigitsToInt(SubSeq(d, 1, Len(d) - 1)) + d[Len(d)]

RECURSIVE IntToDigits(_)
IntToDigits(n) == IF n = 0 THEN <<>> ELSE Append(IntToDigits(n \div Base), n % Base)

StripZero(d) == IF d # <<>> /\ d[1] = 0 THEN Tail(d) ELSE d

\* floor(d / 2^k)
Shr(d, k) ==
    LET a  == k \div DigitBits
        b  == k % DigitBits
        d1 == IF a >= Len(d) THEN <<>> ELSE SubSeq(d, 1, Len(d) - a)
    IN  StripZero([i \in 1..Len(d1) |->
                     (d1[i] \div 2^b)
                     + (IF i > 1 THEN (d1[i - 1] % 2^b) * 2^(DigitBits - b) ELSE 0)])

\* bit k of d (bit 0 is the least significant)
BitAt(d, k) ==
    LET i == Len(d) - (k \div DigitBits)
    IN  IF i < 1 THEN 0 ELSE (d[i] \div 2^(k % DigitBits)) % 2

\* whether d has a 1 among its k least significant bits
AnyLowBit(d, k) == \E j \in 0..(k - 1) : BitAt(d, j) = 1

\* d + 1, for d whose first digit is below Base - 1
Inc(d) ==
    LET j == CHOOSE i \in 1..Len(d) :
                 d[i] # Base - 1 /\ \A h \in (i + 1)..Len(d) : d[h] = Base - 1
    IN  [i \in 1..Len(d) |-> IF i < j THEN d[i] ELSE IF i = j THEN d[i] + 1 ELSE 0]

\* the 53-bit m (of value m * 2^e) rounded by the guard bit that followed it
\* and the sticky bit (whether a 1 followed the guard bit): ties go to even
Round(m, e, guard, sticky) ==
    LET up == guard = 1 /\ (sticky \/ m[Len(m)] % 2 = 1)
        r  == IF up THEN Inc(m) ELSE m
    IN  IF r[1] = 2^TopBits
          THEN [m |-> [i \in 1..Len(r) |-> IF i = 1 THEN 2^(TopBits - 1) ELSE 0], e |-> e + 1]
          ELSE [m |-> r, e |-> e]

\* the least k >= 0 with n * 2^k >= d
RECURSIVE ShiftUp(_, _)
ShiftUp(n, d) == IF n >= d THEN 0 ELSE 1 + ShiftUp(2 * n, d)

\* the greatest k >= 0 with d * 2^k <= n (for n >= d)
RECURSIVE ShiftDown(_, _)
ShiftDown(n, d) == IF 2 * d > n THEN 0 ELSE 1 + ShiftDown(n, 2 * d)

\* n more base-512 digits of the quotient r / d (r < d), and the remainder
RECURSIVE DivDigits(_, _, _, _)
DivDigits(r, d, n, acc) ==
    IF n = 0 THEN [digits |-> acc, rem |-> r]
    ELSE DivDigits((r * Base) % d, d, n - 1, Append(acc, (r * Base) \div d))

\* a / b for positive ints a, b: the correctly rounded quotient
FDiv(a, b) ==
    LET kn  == ShiftUp(a, b)
        n0  == a * 2^kn
        kd  == ShiftDown(n0, b)
        d0  == b * 2^kd
        top == (n0 * 2^(TopBits - 1)) \div d0
        q   == DivDigits((n0 * 2^(TopBits - 1)) % d0, d0, SignificandDigits - 1, <<top>>)
        g   == IF 2 * q.rem >= d0 THEN 1 ELSE 0
    IN  Round(q.digits, (kd - kn) - (SignificandBits - 1), g, 2 * q.rem - g * d0 # 0)

\* the digits of d * n + carry, for an int n > 0
RECURSIVE MulDigits(_, _, _)
MulDigits(d, n, carry) ==
    IF d = <<>> THEN IntToDigits(carry)
    ELSE LET v == d[Len(d)] * n + carry
         IN  Append(MulDigits(SubSeq(d, 1, Len(d) - 1), n, v \div Base), v % Base)

\* n * x for an int n > 0 and a float x: the correctly rounded product
FMulInt(n, x) ==
    LET p == MulDigits(x.m, n, 0)
        k == (BitLen(p[1]) + (Len(p) - 1) * DigitBits) - SignificandBits
    IN  IF k = 0 THEN [m |-> p, e |-> x.e]
        ELSE Round(Shr(p, k), x.e + k, BitAt(p, k - 1), AnyLowBit(p, k - 1))

\* x < y for positive floats
FLess(x, y) ==
    \/ x.e < y.e
    \/ /\ x.e = y.e
       /\ \E i \in 1..SignificandDigits :
             /\ x.m[i] < y.m[i]
             /\ \A j \in 1..(i - 1) : x.m[j] = y.m[j]

\* min(x, y) as Python computes it: y when y < x, else x
FMin(x, y) == IF FLess(y, x) THEN y ELSE x

\* int(x) for a positive float: the fraction is cut
FTrunc(x) ==
    IF x.e >= 0 THEN DigitsToInt(x.m) * 2^(x.e)
    ELSE DigitsToInt(Shr(x.m, -x.e))

------------------------------------------------------------------------------
(* create_spritesheet.py: resize_with_padding *)

FRAME_SIZE == 128

\* image sizes drawn: every width and height up to MaxDim, and two widths
\* whose quotient is not exact in binary
MaxDim == 6
ExtraDims == {47, 49, 200}
Dims == (1..MaxDim) \cup ExtraDims

\* target sizes drawn: the small ones and the composer's FRAME_SIZE
MaxTarget == 3
Targets == (1..MaxTarget) \cup {FRAME_SIZE}

\* scale = min(target_size / img_width, target_size / img_height)
\* new_width = int(img_width * scale); new_height = int(img_height * scale)
ScaledSize(w, h, t) ==
    LET scale == FMin(FDiv(t, w), FDiv(t, h))
    IN  <<FTrunc(FMulInt(w, scale)), FTrunc(FMulInt(h, scale))>>

\* x_offset = (target_size - new_width) // 2, and the same for y
Offset(t, n) == (t - n) \div 2

\* the whole call. image.resize to a width or height of 0 is the library's to
\* refuse or to accept: both outcomes are drawn.
ResizeWithPadding ==
    /\ program = "resize_with_padding" /\ pc = "resize"
    /\ \E new \in {ScaledSize(image_size[1], image_size[2], target_size)} :
       \/ /\ padded' = [new_width |-> new[1], new_height |-> new[2],
                        canvas |-> <<target_size, target_size>>,
                        x_offset |-> Offset(target_size, new[1]),
                        y_offset |-> Offset(target_size, new[2])]
          /\ pc' = "exited"
          /\ UNCHANGED raised
       \/ /\ new[1] = 0 \/ new[2] = 0
          /\ padded' = [new_width |-> new[1], new_height |-> new[2],
                        canvas |-> <<0, 0>>, x_offset |-> 0, y_offset |-> 0]
          /\ raised' = [kind |-> "ValueError", text |-> "height and width must be > 0",
                        video_id |-> "", seconds |-> 0]
          /\ pc' = "exited"
    /\ UNCHANGED <<program, pipeVars, dlVars, compVars, image_size, target_size>>
    /\ UNCHANGED <<nRetrieve, nSleep, poll_interval, timeout, elapsed, job, pollState,
                   result, firstTerminalAt>>

------------------------------------------------------------------------------
(* create_spritesheet.py: main *)

\* Names are strings, held as their character codes: sorted() compares them
\* code by code.
idle     == <<105, 100, 108, 101>>
walk     == <<119, 97, 108, 107>>
hatching == <<104, 97, 116, 99, 104, 105, 110, 103>>
readme   == <<82, 69, 65, 68, 77, 69>>
frame_1  == <<102, 114, 97, 109, 101, 95, 49, 46, 112, 110, 103>>
frame_2  == <<102, 114, 97, 109, 101, 95, 50, 46, 112, 110, 103>>
frame_10 == <<102, 114, 97, 109, 101, 95, 49, 48, 46, 112, 110, 103>>
cover    == <<99, 111, 118, 101, 114, 46, 112, 110, 103>>

\* the folders INPUT_DIR may hold, and the files a folder may hold
DirNames  == {idle, walk, hatching}
FileNames == {frame_1, frame_2, frame_10, cover}

\* at most MaxDirs folders, of at most MaxFiles files each
MaxDirs == 2
MaxFiles == 3

BACKGROUND_COLOR == [set |-> <<>>, frame |-> <<>>, fit |-> "background"]

\* folder.glob("frame_*.png")
GlobPrefix == <<102, 114, 97, 109, 101, 95>>
GlobSuffix == <<46, 112, 110, 103>>
Matches(name) ==
    /\ Len(name) >= Len(GlobPrefix) + Len(GlobSuffix)
    /\ SubSeq(name, 1, Len(GlobPrefix)) = GlobPrefix
    /\ SubSeq(name, Len(name) - Len(GlobSuffix) + 1, Len(name)) = GlobSuffix

\* a < b for two strings (and so for two paths of one folder)
LexLess(a, b) ==
    \E i \in 1..Len(b) :
        /\ \A j \in 1..(i - 1) : j <= Len(a) /\ a[j] = b[j]
        /\ (i > Len(a) \/ a[i] < b[i])

\* sorted(S)
RECURSIVE Sorted(_)
Sorted(S) ==
    IF S = {} THEN <<>>
    ELSE LET least == CHOOSE x \in S : \A y \in S \ {x} : LexLess(x, y)
         IN  <<least>> \o Sorted(S \ {least})

\* a max that keeps only the last count
MaxOfLast(a, b) == b

\* max(max_frames, len(frames))
MaxOf(a, b) == IF a > b THEN a ELSE b

\* Image.new("RGB", (sheet_width, sheet_height), BACKGROUND_COLOR): the canvas
\* is held cell by cell, with the number of pastes that touched each cell
NewSheet(width, height) ==
    LET cells == (0..(width \div FRAME_SIZE - 1)) \X (0..(height \div FRAME_SIZE - 1))
    IN  [size |-> <<width, height>>,
         cells |-> [c \in cells |-> BACKGROUND_COLOR],
         writes |-> [c \in cells |-> 0]]

\* a position with the two axes exchanged
PastePosSwapped(c, r) == <<r * FRAME_SIZE, c * FRAME_SIZE>>

\* x = col * FRAME_SIZE; y = row * FRAME_SIZE
PastePos(c, r) == <<c * FRAME_SIZE, r * FRAME_SIZE>>

\* spritesheet.paste(frame_resized, (x, y)) of a FRAME_SIZE square: a cell it
\* covers holds the frame, a cell it only overlaps holds a part of it
Paste(sheet, img, pos) ==
    LET x == pos[1]
        y == pos[2]
        Touches(c) == /\ x < (c[1] + 1) * FRAME_SIZE /\ x + FRAME_SIZE > c[1] * FRAME_SIZE
                      /\ y < (c[2] + 1) * FRAME_SIZE /\ y + FRAME_SIZE > c[2] * FRAME_SIZE
        Covers(c)  == x = c[1] * FRAME_SIZE /\ y = c[2] * FRAME_SIZE
    IN  [size |-> sheet.size,
         cells |-> [c \in DOMAIN sheet.cells |->
                      IF Covers(c) THEN img
                      ELSE IF Touches(c) THEN [img EXCEPT !.fit = "part"]
                      ELSE sheet.cells[c]],
         writes |-> [c \in DOMAIN sheet.writes |->
                      IF Touches(c) THEN sheet.writes[c] + 1 ELSE sheet.writes[c]]]

\* animation_folders = sorted([d for d in INPUT_DIR.iterdir() if d.is_dir()])
\* if not animation_folders: print; return
ComposeListFolders ==
    /\ program = "create_spritesheet.py" /\ pc = "list_folders"
    /\ animation_folders' = Sorted({d \in DOMAIN tree : tree[d].is_dir})
    /\ IF animation_folders' = <<>>
         THEN pc' = "exited" /\ exit_code' = 0
         ELSE pc' = "load" /\ exit_code' = exit_code
    /\ UNCHANGED <<program, image_exists, api_key_set, prompt_input, prompt_name,
                   video_id, nCreate>>
    /\ UNCHANGED <<tree, animations, max_frames, row, col, spritesheet, saved>>
    /\ UNCHANGED <<pollVars, dlVars, rzVars>>

\* one turn of the loading loop:
\*   frames = sorted(folder.glob("frame_*.png")); animations[folder.name] = frames
\*   max_frames = max(max_frames, len(frames))
ComposeLoadFrames ==
    /\ program = "create_spritesheet.py" /\ pc = "load"
    /\ row < Len(animation_folders)
    /\ LET folder == animation_folders[row + 1]
           frames == Sorted({f \in tree[folder].files : Matches(f)})
       IN  /\ animations' = (folder :> frames) @@ animations
           /\ max_frames' = MaxOf(max_frames, Len(frames))
    /\ row' = row + 1
    /\ UNCHANGED <<program, pc, pipeVars, pollVars, dlVars, rzVars>>
    /\ UNCHANGED <<tree, animation_folders, col, spritesheet, saved>>

\* after the loading loop: if max_frames == 0: print; return
\* else the canvas of FRAME_SIZE * max_frames by FRAME_SIZE * num_animations
ComposeCreateCanvas ==
    /\ program = "create_spritesheet.py" /\ pc = "load"
    /\ row = Len(animation_folders)
    /\ IF max_frames = 0
         THEN /\ pc' = "exited" /\ exit_code' = 0
              /\ UNCHANGED spritesheet
         ELSE /\ pc' = "paste" /\ exit_code' = exit_code
              /\ spritesheet' = NewSheet(FRAME_SIZE * max_frames,
                                         FRAME_SIZE * Len(animation_folders))
    /\ row' = 0 /\ col' = 0
    /\ UNCHANGED <<program, image_exists, api_key_set, prompt_input, prompt_name,
                   video_id, nCreate>>
    /\ UNCHANGED <<tree, animation_folders, animations, max_frames, saved>>
    /\ UNCHANGED <<pollVars, dlVars, rzVars>>

\* one turn of the inner loop: open the frame, fit it to the cell
\* (resize_with_padding for "hatching", a plain resize otherwise), paste it
ComposePasteFrame ==
    /\ program = "create_spritesheet.py" /\ pc = "paste"
    /\ row < Len(animation_folders)
    /\ col < Len(animations[animation_folders[row + 1]])
    /\ LET folder == animation_folders[row + 1]
           img == [set |-> folder, frame |-> animations[folder][col + 1],
                   fit |-> IF folder = hatching THEN "letterbox" ELSE "stretch"]
       IN  spritesheet' = Paste(spritesheet, img, PastePos(col, row))
    /\ col' = col + 1
    /\ UNCHANGED <<program, pc, pipeVars, pollVars, dlVars, rzVars>>
    /\ UNCHANGED <<tree, animation_folders, animations, max_frames, row, saved>>

\* the inner loop is over: the outer loop takes the next folder
ComposeNextRow ==
    /\ program = "create_spritesheet.py" /\ pc = "paste"
    /\ row < Len(animation_folders)
    /\ col = Len(animations[animation_folders[row + 1]])
    /\ row' = row + 1 /\ col' = 0
    /\ UNCHANGED <<program, pc, pipeVars, pollVars, dlVars, rzVars>>
    /\ UNCHANGED <<tree, animation_folders, animations, max_frames, spritesheet, saved>>

\* spritesheet.save(OUTPUT_FILE)
ComposeSave ==
    /\ program = "create_spritesheet.py" /\ pc = "paste"
    /\ row = Len(animation_folders)
    /\ saved' = TRUE
    /\ pc' = "exited" /\ exit_code' = 0
    /\ UNCHANGED <<program, image_exists, api_key_set, prompt_input, prompt_name,
                   video_id, nCreate>>
    /\ UNCHANGED <<tree, animation_folders, animations, max_frames, row, col, spritesheet>>
    /\ UNCHANGED <<pollVars, dlVars, rzVars>>

------------------------------------------------------------------------------
(* Specifications *)

ComposerIdle ==
    /\ tree = <<>> /\ animation_folders = <<>> /\ animations = <<>>
    /\ max_frames = 0 /\ row = 0 /\ col = 0
    /\ spritesheet = None /\ saved = FALSE

ResizeIdle == image_size = <<0, 0>> /\ target_size = 0 /\ padded = None

PollIdle ==
    /\ nRetrieve = 0 /\ nSleep = 0
    /\ job = NoJob /\ result = None /\ raised = None /\ firstTerminalAt = 0

\* generate.py, started with any --prompt, with or without the image file and
\* the credential
Init ==
    /\ program = "generate.py" /\ pc = "check_image"
    /\ exit_code = -1
    /\ image_exists \in BOOLEAN
    /\ api_key_set \in BOOLEAN
    /\ prompt_input \in PromptInputs
    /\ prompt_name = ""
    /\ video_id = ""
    /\ nCreate = 0
    /\ PollIdle
    /\ pollState = "idle" /\ poll_interval = 0 /\ timeout = 0 /\ elapsed = 0
    /\ todo = GenerateVariants
    /\ requested = [v \in Variants |-> 0]
    /\ fetched = [v \in Variants |-> "none"]
    /\ files = {}
    /\ ComposerIdle /\ ResizeIdle

Next ==
    \/ MainCheckImage
    \/ MainGetClient
    \/ MainCreateVideo
    \/ PollLoopTest
    \/ PollRetrieve
    \/ PollSleep
    \/ DownloadVariant
    \/ DownloadDone

Spec == Init /\ [][Next]_vars

\* wait_for_completion called on its own with any interval and timeout
PollInit ==
    /\ program = "wait_for_completion" /\ pc = "loop_test"
    /\ exit_code = -1
    /\ image_exists = TRUE /\ api_key_set = TRUE
    /\ prompt_input = "flying" /\ prompt_name = "flying"
    /\ video_id \in VideoIds
    /\ nCreate = 0
    /\ PollIdle
    /\ pollState = "running"
    /\ poll_interval \in -1..MaxInterval
    /\ timeout \in -1..MaxTimeout
    /\ elapsed = 0
    /\ todo = <<>>
    /\ requested = [v \in Variants |-> 0]
    /\ fetched = [v \in Variants |-> "none"]
    /\ files = {}
    /\ ComposerIdle /\ ResizeIdle

PollNext == PollLoopTest \/ PollRetrieve \/ PollSleep

PollSpec == PollInit /\ [][PollNext]_vars

\* the interpreter keeps executing the loop as long as it has a next statement
PollFairSpec == PollInit /\ [][PollNext]_vars /\ WF_vars(PollNext)

\* download_outputs called on its own, or download_video.py with a job id
DownloadInit ==
    /\ program \in {"download_outputs", "download_video.py"}
    /\ pc = "download"
    /\ exit_code = -1
    /\ image_exists = TRUE /\ api_key_set \in BOOLEAN
    /\ prompt_input \in PromptInputs
    /\ prompt_name = IF program = "download_outputs" THEN PromptName(prompt_input) ELSE ""
    /\ video_id \in VideoIds
    /\ nCreate = 0
    /\ PollIdle
    /\ pollState = "idle" /\ poll_interval = 0 /\ timeout = 0 /\ elapsed = 0
    /\ todo = IF program = "download_outputs" THEN GenerateVariants ELSE ScriptVariants
    /\ requested = [v \in Variants |-> 0]
    /\ fetched = [v \in Variants |-> "none"]
    /\ files = {}
    /\ ComposerIdle /\ ResizeIdle

DownloadNext == DownloadVariant \/ DownloadDone

DownloadSpec == DownloadInit /\ [][DownloadNext]_vars

\* resize_with_padding called with any image size and target size
ResizeInit ==
    /\ program = "resize_with_padding" /\ pc = "resize"
    /\ exit_code = -1
    /\ image_exists = TRUE /\ api_key_set = TRUE
    /\ prompt_input = "flying" /\ prompt_name = ""
    /\ video_id = ""
    /\ nCreate = 0
    /\ PollIdle
    /\ pollState = "idle" /\ poll_interval = 0 /\ timeout = 0 /\ elapsed = 0
    /\ todo = <<>>
    /\ requested = [v \in Variants |-> 0]
    /\ fetched = [v \in Variants |-> "none"]
    /\ files = {}
    /\ ComposerIdle
    /\ image_size \in Dims \X Dims
    /\ target_size \in Targets
    /\ padded = None

ResizeNext == ResizeWithPadding

ResizeSpec == ResizeInit /\ [][ResizeNext]_vars

\* create_spritesheet.py run on any INPUT_DIR: some folders, each with some
\* files, and maybe a plain file beside them
FileSets == {F \in SUBSET FileNames : Cardinality(F) <= MaxFiles}

ComposeInit ==
    /\ program = "create_spritesheet.py" /\ pc = "list_folders"
    /\ exit_code = -1
    /\ image_exists = TRUE /\ api_key_set = TRUE
    /\ prompt_input = "flying" /\ prompt_name = ""
    /\ video_id = ""
    /\ nCreate = 0
    /\ PollIdle
    /\ pollState = "idle" /\ poll_interval = 0 /\ timeout = 0 /\ elapsed = 0
    /\ todo = <<>>
    /\ requested = [v \in Variants |-> 0]
    /\ fetched = [v \in Variants |-> "none"]
    /\ files = {}
    /\ ResizeIdle
    /\ \E D \in SUBSET DirNames, stray \in BOOLEAN :
          /\ Cardinality(D) <= MaxDirs
          /\ \E fs \in [D -> FileSets] :
                tree = [n \in D \cup (IF stray THEN {readme} ELSE {}) |->
                          IF n \in D THEN [is_dir |-> TRUE, files |-> fs[n]]
                                     ELSE [is_dir |-> FALSE, files |-> {}]]
    /\ animation_folders = <<>> /\ animations = <<>>
    /\ max_frames = 0 /\ row = 0 /\ col = 0
    /\ spritesheet = None /\ saved = FALSE

ComposeNext ==
    \/ ComposeListFolders
    \/ ComposeLoadFrames
    \/ ComposeCreateCanvas
    \/ ComposePasteFrame
    \/ ComposeNextRow
    \/ ComposeSave

ComposeSpec == ComposeInit /\ [][ComposeNext]_vars

------------------------------------------------------------------------------
(* Properties *)

NoDownloadCall == \A v \in Variants : requested[v] = 0

\* the counters are exact (they saturate only in a run that never ends)
Counted == nRetrieve < MaxCount /\ nSleep < MaxCount

\* C1: when the first terminal status is "completed", at check k, the call
\* returns the record of that k-th check, has slept k-1 times, and no retrieve
\* or sleep follows: the counters stay at k and k-1 in every later state.
C1_CompletedReturnsKthCheck ==
    /\ (firstTerminalAt # 0 /\ Counted) =>
          /\ job.seq = firstTerminalAt
          /\ nRetrieve = firstTerminalAt
          /\ nSleep = firstTerminalAt - 1
          /\ (job.status = "completed") =>
                (pollState = "returned" /\ result = job /\ raised = None)
    /\ (pollState = "returned" /\ Counted) =>
          (result.status = "completed" /\ result.seq = firstTerminalAt)

\* the scenario: a terminal "completed" on the third check, after two sleeps
C1_Witness ==
    /\ pollState = "returned" /\ result.seq = 3 /\ nRetrieve = 3 /\ nSleep = 2
    /\ pc = "exited"

\* C2: whatever the interval and the timeout, the call ends after finitely
\* many checks (by the timeout failure when no check sees a terminal status).
C2_PollTerminates == <>(pollState # "running")

\* C3: each variant is requested exactly once, a variant that was fetched has
\* its file on disk, and no variant's failure ends the loop or the program.
C3_VariantsIndependent ==
    /\ \A v \in Variants :
          /\ requested[v] <= 1
          /\ (requested[v] = 1) <=> (fetched[v] # "none")
          /\ (fetched[v] = "ok") =>
                [path |-> FilePath(program, prompt_name, video_id, v),
                 content |-> v] \in files
          /\ (pc = "exited" /\ exit_code = 0) => requested[v] = 1
    /\ Cardinality(files) = Cardinality({v \in Variants : fetched[v] = "ok"})
    /\ (pc = "exited") => (exit_code = 0 /\ todo = <<>>)

\* the scenario: "video" is absent remotely, the other two are on disk
C3_Witness ==
    /\ pc = "exited"
    /\ fetched["video"] = "failed"
    /\ fetched["thumbnail"] = "ok" /\ fetched["spritesheet"] = "ok"
    /\ Cardinality(files) = 2

\* C4: the first check that answers "failed" raises at once, with the message
\* the service supplied: no sleep and no retrieve follows, nothing is returned.
C4_FailedRaisesAtOnce ==
    (firstTerminalAt # 0 /\ Counted /\ job.status = "failed") =>
        /\ pollState = "failed"
        /\ raised # None /\ raised.kind = "RuntimeError"
        /\ job.error.has_message => raised.text = job.error.message
        /\ ~job.error.has_message => raised.text = job.error.repr
        /\ result = None
        /\ nRetrieve = job.seq
        /\ nSleep = job.seq - 1

C4_Witness ==
    /\ pollState = "failed" /\ nRetrieve = 2 /\ nSleep = 1
    /\ raised.text = "moderation_blocked"

\* C6: a run without the image file or without the credential makes no call
\* of the Job Service, and ends with exit status 1.
C6_ConfigErrorBeforeAnyCall ==
    (~image_exists \/ ~api_key_set) =>
        /\ nCreate = 0 /\ nRetrieve = 0 /\ NoDownloadCall
        /\ pc \in {"check_image", "get_client", "exited"}
        /\ (pc = "exited") => exit_code = 1

C6_Witness ==
    /\ pc = "exited" /\ exit_code = 1
    /\ image_exists /\ ~api_key_set /\ nCreate = 0

\* C8: create is called at most once, a retrieve only after it, a download only
\* once a retrieve answered "completed"; after a failed job or a timeout there
\* is no download call and no file.
C8_PipelineOrder ==
    /\ nCreate <= 1
    /\ (nRetrieve > 0) => (nCreate = 1 /\ video_id \in VideoIds)
    /\ (~NoDownloadCall \/ files # {}) =>
          (pollState = "returned" /\ job.status = "completed" /\ nCreate = 1)
    /\ (pollState \in {"failed", "timeout", "error"}) =>
          (NoDownloadCall /\ files = {} /\ pc = "exited" /\ exit_code = 1)

C8_Witness ==
    /\ pollState = "timeout" /\ pc = "exited"
    /\ nCreate = 1 /\ nRetrieve = DEFAULT_TIMEOUT \div DEFAULT_POLL_INTERVAL

\* the input of the composer, read off INPUT_DIR without running it
Dirs == {d \in DOMAIN tree : tree[d].is_dir}
Frames(d) == {f \in tree[d].files : Matches(f)}
FrameCounts == {Cardinality(Frames(d)) : d \in Dirs}
MaxFrameCount == CHOOSE n \in FrameCounts : \A k \in FrameCounts : k <= n
\* how many elements of S sort before x
RankIn(x, S) == Cardinality({y \in S : LexLess(y, x)})

\* C5: with at least one folder and one frame, the run saves a sheet, and a
\* sheet is always (largest frame count * FRAME_SIZE) wide and (number of
\* folders, the empty ones too, * FRAME_SIZE) high.
C5_SheetDimensions ==
    /\ (spritesheet # None) =>
          spritesheet.size = <<MaxFrameCount * FRAME_SIZE, Cardinality(Dirs) * FRAME_SIZE>>
    /\ (pc = "exited" /\ Dirs # {} /\ \E d \in Dirs : Frames(d) # {}) =>
          (saved /\ spritesheet # None)
    /\ saved => spritesheet # None

\* a folder without frames still takes a row: three frames and an empty folder
C5_Witness ==
    /\ saved
    /\ Cardinality(Dirs) = 2 /\ \E d \in Dirs : Frames(d) = {}
    /\ spritesheet.size = <<3 * FRAME_SIZE, 2 * FRAME_SIZE>>

\* C7 (read for the one target the composer passes, FRAME_SIZE): the canvas
\* is a square of side target_size, the longer edge of the scaled content is
\* target_size, the shorter edge is at least 1, and the padding of each axis
\* is split with a difference of at most 1.
C7_LetterboxGeometry ==
    (padded # None /\ target_size = FRAME_SIZE) =>
        /\ (raised = None) => padded.canvas = <<target_size, target_size>>
        /\ (IF padded.new_width > padded.new_height
              THEN padded.new_width ELSE padded.new_height) = target_size
        /\ padded.new_width >= 1 /\ padded.new_height >= 1
        /\ LET right  == target_size - padded.new_width - padded.x_offset
               bottom == target_size - padded.new_height - padded.y_offset
           IN  (raised = None) =>
                 /\ right - padded.x_offset \in {0, 1}
                 /\ bottom - padded.y_offset \in {0, 1}

\* C9: the frame in column c of row r is frame c (in sorted order) of folder r
\* (in sorted order), pasted once; a cell past the frames of its row is never
\* written and keeps the background; once saved every frame is in its cell.
C9_CellPlacement ==
    (spritesheet # None) =>
        \A cell \in DOMAIN spritesheet.cells :
            LET c == cell[1]
                r == cell[2]
                d == CHOOSE x \in Dirs : RankIn(x, Dirs) = r
            IN  /\ spritesheet.writes[cell] <= 1
                /\ (spritesheet.writes[cell] = 1) =>
                      /\ c < Cardinality(Frames(d))
                      /\ spritesheet.cells[cell].set = d
                      /\ spritesheet.cells[cell].frame \in Frames(d)
                      /\ RankIn(spritesheet.cells[cell].frame, Frames(d)) = c
                      /\ spritesheet.cells[cell].fit \in {"stretch", "letterbox"}
                /\ (spritesheet.writes[cell] = 0) =>
                      spritesheet.cells[cell] = BACKGROUND_COLOR
                /\ (c >= Cardinality(Frames(d))) => spritesheet.writes[cell] = 0
                /\ (saved /\ c < Cardinality(Frames(d))) => spritesheet.writes[cell] = 1

\* the scenario: "walk" with 3 frames and "idle" with 2 give a 384 x 256 sheet
\* whose "idle" row (the first) ends in one background cell
C9_Witness ==
    /\ saved
    /\ Dirs = {idle, walk}
    /\ Cardinality(Frames(walk)) = 3 /\ Cardinality(Frames(idle)) = 2
    /\ spritesheet.size = <<384, 256>>
    /\ spritesheet.cells[<<2, 0>>] = BACKGROUND_COLOR
    /\ spritesheet.cells[<<1, 0>>] = [set |-> idle, frame |-> frame_2, fit |-> "stretch"]
    /\ spritesheet.cells[<<1, 1>>] = [set |-> walk, frame |-> frame_10, fit |-> "stretch"]
    /\ spritesheet.cells[<<2, 1>>] = [set |-> walk, frame |-> frame_2, fit |-> "stretch"]

\* C10 as stated: a timeout is reported only once elapsed exceeds timeout
\* (read here for the positive timeouts only, where polling takes place).
C10_TimeoutOnlyPastTimeout ==
    (pollState = "timeout" /\ timeout > 0) => elapsed > timeout

\* C10 amended: a timeout is reported only once elapsed has reached timeout,
\* and every check is made while elapsed is still below timeout: the check
\* due at elapsed = timeout is never made.
C10_TimeoutOnceReached ==
    /\ (pollState = "timeout") => elapsed >= timeout
    /\ (pc = "retrieve") => elapsed < timeout
    /\ (job # NoJob) => job.at < timeout
    /\ (pc = "loop_test" /\ elapsed < timeout) => pollState = "running"

C10_Witness ==
    /\ pollState = "timeout" /\ elapsed = timeout /\ nRetrieve > 0

=============================================================================
